---- MODULE Spec2Model ----
(***************************************************************************)
(* Wave-function-collapse world streaming of the Void repository.          *)
(*                                                                         *)
(* The model follows one frame of the Update schedule system by system:    *)
(*   create_cells -> destroy_cells            (cells.rs, chained)          *)
(*   update_spatial_index -> initialize_new_cells ->                       *)
(*   propagate_regular_constraints -> collapse_lowest_entropy_cell         *)
(*                                            (odycore.rs, chained)        *)
(* The two chains are taken in the order their plugins are registered      *)
(* (cells before odycore). Cell and CellSpatialIndex, which cells.rs,      *)
(* odycore.rs and odycore/cell.rs each declare with the same fields, are   *)
(* one component and one resource here.                                    *)
(* Commands (spawn / despawn) are deferred: the spawns of create_cells are *)
(* applied at the sync point that the chain inserts before destroy_cells,  *)
(* the despawns of destroy_cells at the end of the schedule.               *)
(*                                                                         *)
(* GenerationSettings is instantiated at a reduced size (edge length 2,    *)
(* 3 cells on an edge) so that the streamed window is 3 x 3 cells; the     *)
(* shipped default is 9 / 17 / 0.7. Cells start with four of the twelve    *)
(* tiles of the shipped rule table.                                        *)
(***************************************************************************)
EXTENDS Integers, Sequences, FiniteSets, TLC

\* ------------------------------------------------------------ bounds
\* Frames executed before the model stops.
MaxFrames == 3
\* The observer walks along +x / -x inside [0, MaxPlayerCells] grid cells.
MaxPlayerCells == 2

\* ------------------------------------------------------------ settings
\* GenerationSettings (cells.rs), reduced instance.
cell_edge_length == 2
total_cells_on_edge == 3
\* Cells on an edge of the square create_cells fills.
WindowEdge == 2 * (total_cells_on_edge \div 2) + 1
\* Entity handles available to the ECS world: the first window, one column
\* of new cells for every cell the observer can walk, and one to spare.
NumEntities == WindowEdge * WindowEdge + MaxPlayerCells * WindowEdge + 1
\* spawn_distance = 0.7 as the fraction SpawnDistanceNum / SpawnDistanceDen.
SpawnDistanceNum == 7
SpawnDistanceDen == 10
\* Throttling intervals in milliseconds.
UPDATE_INTERVAL_MS == 200
DESPAWN_INTERVAL_MS == 200
\* Height of the observer above the cell plane (spawn_player).
PlayerY == 2
\* Frame durations the clock can deliver, in milliseconds.
FrameDeltas == {100, 200}

\* ------------------------------------------------------------ tile catalog
TileType ==
    {"Ground", "Tree", "Chest", "FountainCenter",
     "FountainCorner1", "FountainCorner2", "FountainCorner3", "FountainCorner4",
     "FountainEdge1", "FountainEdge2", "FountainEdge3", "FountainEdge4"}
NoTile == "None"

Direction == {"Front", "Back", "Right", "Left"}

DIRECTION_VECTORS ==
    << <<"Front", <<0, 1>> >>, <<"Back", <<0, -1>> >>,
       <<"Right", <<1, 0>> >>, <<"Left", <<-1, 0>> >> >>

\* get_opposite_direction turning a quarter instead of a half.
get_opposite_direction_quarter_turn(direction) ==
    CASE direction = "Front" -> "Right"
      [] direction = "Right" -> "Back"
      [] direction = "Back"  -> "Left"
      [] direction = "Left"  -> "Front"
      [] direction = "FrontRight" -> "BackRight"
      [] direction = "BackRight"  -> "BackLeft"
      [] direction = "BackLeft"   -> "FrontLeft"
      [] direction = "FrontLeft"  -> "FrontRight"

get_opposite_direction(direction) ==
    CASE direction = "Front" -> "Back"
      [] direction = "Back"  -> "Front"
      [] direction = "Right" -> "Left"
      [] direction = "Left"  -> "Right"
      [] direction = "FrontRight" -> "BackLeft"
      [] direction = "FrontLeft"  -> "BackRight"
      [] direction = "BackRight"  -> "FrontLeft"
      [] direction = "BackLeft"   -> "FrontRight"

\* A rules_map with the four directions spelled out.
Sides(front, back, right, left) ==
    [ Front |-> front, Back |-> back, Right |-> right, Left |-> left ]

AllDirs(list) == Sides(list, list, list, list)

\* The candidates every cell of the model starts with: four of the table's
\* twelve tiles, in the table's order.
ModelTiles == <<"Ground", "Chest", "FountainCorner1", "FountainEdge1">>

\* OpenSpaceRules::default(): allowed_neighbors as shipped, for the four
\* directions of DIRECTION_VECTORS. Weights are in hundredths.
OpenSpaceRules ==
    [ allowed_neighbors |->
        [ Ground |-> AllDirs(<<"Ground", "Chest", "Tree",
                               "FountainCorner1", "FountainCorner2",
                               "FountainCorner3", "FountainCorner4",
                               "FountainEdge1", "FountainEdge2",
                               "FountainEdge3", "FountainEdge4">>),
          Tree |-> AllDirs(<<"Ground", "Tree">>),
          Chest |-> AllDirs(<<"Ground">>),
          FountainCenter |-> AllDirs(<<"FountainCenter",
                               "FountainCorner1", "FountainCorner2",
                               "FountainCorner3", "FountainCorner4",
                               "FountainEdge1", "FountainEdge2",
                               "FountainEdge3", "FountainEdge4">>),
          FountainCorner1 |-> Sides(<<"Ground">>, <<"FountainEdge3">>,
                                    <<"FountainEdge1">>, <<"Ground">>),
          FountainCorner2 |-> Sides(<<"Ground">>, <<"FountainEdge2">>,
                                    <<"Ground">>, <<"FountainEdge1">>),
          FountainCorner3 |-> Sides(<<"FountainEdge3">>, <<"Ground">>,
                                    <<"FountainEdge4">>, <<"Ground">>),
          FountainCorner4 |-> Sides(<<"FountainEdge2">>, <<"Ground">>,
                                    <<"Ground">>, <<"FountainEdge4">>),
          FountainEdge1 |-> Sides(<<"Ground">>, <<"FountainCenter">>,
                                  <<"FountainEdge1", "FountainCorner2">>,
                                  <<"FountainEdge1", "FountainCorner1">>),
          FountainEdge2 |-> Sides(<<"FountainEdge2", "FountainCorner2">>,
                                  <<"FountainEdge2", "FountainCorner2">>,
                                  <<"Ground">>, <<"FountainCenter">>),
          FountainEdge3 |-> Sides(<<"FountainCorner1", "FountainEdge3">>,
                                  <<"FountainCorner3", "FountainEdge3">>,
                                  <<"FountainCenter">>, <<"Ground">>),
          FountainEdge4 |-> Sides(<<"FountainCenter">>, <<"Ground">>,
                                  <<"FountainEdge4", "FountainCorner4">>,
                                  <<"FountainEdge4", "FountainCorner3">>) ],
      all_tiles |-> ModelTiles,
      weights |->
        [ Ground |-> 80, Tree |-> 20, Chest |-> 1, FountainCenter |-> 30,
          FountainCorner1 |-> 30, FountainCorner2 |-> 30,
          FountainCorner3 |-> 30, FountainCorner4 |-> 30,
          FountainEdge1 |-> 30, FountainEdge2 |-> 30,
          FountainEdge3 |-> 30, FountainEdge4 |-> 30 ] ]

Contains(list, tile) == \E i \in 1..Len(list) : list[i] = tile

\* valid_tiles.retain(|tile| allowed_tiles.contains(tile)).
Retain(valid_tiles, allowed_tiles) ==
    SelectSeq(valid_tiles, LAMBDA tile : Contains(allowed_tiles, tile))

\* The list looked up for neighbor_tile on the side opposite to `direction`.
filter_valid_tiles(valid_tiles, neighbor_tile, direction, r) ==
    IF neighbor_tile \in DOMAIN r.allowed_neighbors
       /\ get_opposite_direction(direction) \in DOMAIN r.allowed_neighbors[neighbor_tile]
    THEN Retain(valid_tiles,
                r.allowed_neighbors[neighbor_tile][get_opposite_direction(direction)])
    ELSE valid_tiles

\* ------------------------------------------------------------ state
VARIABLES
    cells,          \* entity -> Cell component (+ Transform translation)
    grid,           \* CellSpatialIndex.grid : position -> entity
    queue,          \* RegularPropagationQueue.queue
    added,          \* entities whose Cell was added since the systems last ran
    removed,        \* RemovedComponents<Cell> events not yet read
    despawning,     \* despawn commands queued by destroy_cells
    player,         \* observer translation <<x, z>> in world units
    since_create,   \* now - last_update of create_cells, saturating
    since_destroy,  \* now - last_update of destroy_cells, saturating
    recovered,      \* cells reset by contradiction recovery in the last pass
    frame,          \* frames run so far
    pc              \* the system that runs next

vars == <<cells, grid, queue, added, removed, despawning, player,
          since_create, since_destroy, recovered, frame, pc>>

Entities == 1..NumEntities
\* The value of a key the index has no entry for.
NoEntity == 0

\* Keys the index can hold in the region the observer can reach: its square
\* when it walks along x, and one more row for an observer standing up to
\* one cell off in z.
GridKeys ==
    ((0 - (total_cells_on_edge \div 2))..(MaxPlayerCells + (total_cells_on_edge \div 2)))
        \X ((0 - (total_cells_on_edge \div 2))..((total_cells_on_edge \div 2) + 1))

DeadCell ==
    [ live |-> FALSE, is_collapsed |-> FALSE, tile_type |-> NoTile, entropy |-> 0,
      valid_tiles |-> <<>>, position |-> <<0, 0>>, translation |-> <<0, 0>> ]

\* Cell::new plus the Transform the cell is spawned with.
NewCell(all_tiles, position, translation) ==
    [ live |-> TRUE, is_collapsed |-> FALSE, tile_type |-> NoTile,
      entropy |-> Len(all_tiles), valid_tiles |-> all_tiles,
      position |-> position, translation |-> translation ]

is_contradiction(cell) == cell.valid_tiles = <<>> /\ ~cell.is_collapsed

Live == {e \in Entities : cells[e].live}

Init ==
    /\ cells = [e \in Entities |-> DeadCell]
    /\ grid = [p \in GridKeys |-> NoEntity]
    /\ queue = << >>
    /\ added = {}
    /\ removed = {}
    /\ despawning = {}
    /\ player = <<0, 0>>
    /\ since_create = 0
    /\ since_destroy = 0
    /\ recovered = {}
    /\ frame = 0
    /\ pc = "create"

\* ------------------------------------------------------------ helpers
Min(a, b) == IF a < b THEN a ELSE b

\* (w / edge).round() as i32 for an integral w: halves round away from zero.
RoundDiv(w, e) ==
    IF w >= 0 THEN (2 * w + e) \div (2 * e) ELSE 0 - ((e - 2 * w) \div (2 * e))

\* Position of e in the ascending order of the set S it belongs to.
Rank(S, e) == Cardinality({f \in S : f < e}) + 1

\* The elements of a set of handles in ascending order.
SortedSeq(S) == [k \in 1..Cardinality(S) |-> CHOOSE e \in S : Rank(S, e) = k]

InQueue(e) == \E i \in 1..Len(queue) : queue[i] = e

\* Handles no live cell, index entry, queue entry or pending event refers to;
\* the ECS hands out a handle that is fresh in this sense.
FreeEntities ==
    {e \in Entities :
        /\ ~cells[e].live
        /\ \A p \in GridKeys : grid[p] # e
        /\ ~InQueue(e)
        /\ e \notin removed
        /\ e \notin despawning
        /\ e \notin added}

\* ------------------------------------------------------------ streaming
half_size == total_cells_on_edge \div 2

\* SquarePositions changed to loops with exclusive upper ends.
SquarePositionsExclusive(px, pz) ==
    [i \in 1..((2 * half_size) * (2 * half_size)) |->
        << px - half_size + ((i - 1) \div (2 * half_size)),
           pz - half_size + ((i - 1) % (2 * half_size)) >>]

\* The square around the observer in the order of the two nested loops.
SquarePositions(px, pz) ==
    [i \in 1..((2 * half_size + 1) * (2 * half_size + 1)) |->
        << px - half_size + ((i - 1) \div (2 * half_size + 1)),
           pz - half_size + ((i - 1) % (2 * half_size + 1)) >>]

existing_positions ==
    {<< RoundDiv(cells[e].translation[1], cell_edge_length),
        RoundDiv(cells[e].translation[2], cell_edge_length) >> : e \in Live}

NotIn(seq, S) == SelectSeq(seq, LAMBDA p : p \notin S)

\* Throttled changed to let the body run after half the interval.
ThrottledAtHalfInterval(since, interval) == 2 * since < interval

\* *last_update + Duration::from_millis(interval) > now, with
\* since = now - *last_update.
Throttled(since, interval) == since < interval

\* The coordinates create_cells spawns a cell at, in spawn order.
CellsToCreate ==
    NotIn(SquarePositions(RoundDiv(player[1], cell_edge_length),
                          RoundDiv(player[2], cell_edge_length)),
          existing_positions)

\* SpawnCells handing Cell::new the world coordinate as position.
SpawnCellsAtWorldPosition(todo, free) ==
    /\ Len(todo) <= Cardinality(free)
    /\ cells' = [e \in Entities |->
                    IF e \in free /\ Rank(free, e) <= Len(todo)
                    THEN NewCell(OpenSpaceRules.all_tiles,
                                 << todo[Rank(free, e)][1] * cell_edge_length,
                                    todo[Rank(free, e)][2] * cell_edge_length >>,
                                 << todo[Rank(free, e)][1] * cell_edge_length,
                                    todo[Rank(free, e)][2] * cell_edge_length >>)
                    ELSE cells[e]]
    /\ added' = added \cup {e \in free : Rank(free, e) <= Len(todo)}

\* commands.spawn for every coordinate of todo, the k-th on the k-th free handle.
SpawnCells(todo, free) ==
    /\ Len(todo) <= Cardinality(free)
    /\ cells' = [e \in Entities |->
                    IF e \in free /\ Rank(free, e) <= Len(todo)
                    THEN NewCell(OpenSpaceRules.all_tiles, todo[Rank(free, e)],
                                 << todo[Rank(free, e)][1] * cell_edge_length,
                                    todo[Rank(free, e)][2] * cell_edge_length >>)
                    ELSE cells[e]]
    /\ added' = added \cup {e \in free : Rank(free, e) <= Len(todo)}

create_cells ==
    /\ pc = "create"
    /\ pc' = "destroy"
    /\ IF Throttled(since_create, UPDATE_INTERVAL_MS)
       THEN UNCHANGED <<cells, added, since_create>>
       ELSE /\ since_create' = 0
            /\ \E todo \in {CellsToCreate} : \E free \in {FreeEntities} :
                  SpawnCells(todo, free)
    /\ UNCHANGED <<grid, queue, removed, despawning, player,
                   since_destroy, recovered, frame>>

\* TooFar changed to measure the distance in the cell plane only.
TooFarInPlane(e) ==
    SpawnDistanceDen * SpawnDistanceDen
        * ( (player[1] - cells[e].translation[1]) * (player[1] - cells[e].translation[1])
            + (player[2] - cells[e].translation[2]) * (player[2] - cells[e].translation[2]) )
      > (total_cells_on_edge * cell_edge_length * SpawnDistanceNum)
        * (total_cells_on_edge * cell_edge_length * SpawnDistanceNum)

\* distance(player, cell) > total_cells_on_edge * cell_edge_length * spawn_distance,
\* compared on the squares.
TooFar(e) ==
    SpawnDistanceDen * SpawnDistanceDen
        * ( (player[1] - cells[e].translation[1]) * (player[1] - cells[e].translation[1])
            + PlayerY * PlayerY
            + (player[2] - cells[e].translation[2]) * (player[2] - cells[e].translation[2]) )
      > (total_cells_on_edge * cell_edge_length * SpawnDistanceNum)
        * (total_cells_on_edge * cell_edge_length * SpawnDistanceNum)

\* The key destroy_cells removes for a cell: its translation cast to i32.
DestroyKey(e) == << cells[e].translation[1], cells[e].translation[2] >>

DespawnCells(far) ==
    /\ grid' = [p \in GridKeys |->
                   IF \E e \in far : DestroyKey(e) = p THEN NoEntity ELSE grid[p]]
    /\ despawning' = despawning \cup far

destroy_cells ==
    /\ pc = "destroy"
    /\ pc' = "index"
    /\ IF Throttled(since_destroy, DESPAWN_INTERVAL_MS)
       THEN UNCHANGED <<grid, despawning, since_destroy>>
       ELSE /\ since_destroy' = 0
            /\ \E far \in {{e \in Live : TooFar(e)}} : DespawnCells(far)
    /\ UNCHANGED <<cells, queue, added, removed, player,
                   since_create, recovered, frame>>

\* ------------------------------------------------------------ spatial index
\* The index after the insert loop over the added cells.
IndexInserted ==
    [p \in GridKeys |->
        IF \E e \in added : cells[e].live /\ cells[e].position = p
        THEN CHOOSE e \in added : cells[e].live /\ cells[e].position = p
        ELSE grid[p]]

\* The retain loop with its test inverted (stored_entity == entity): each
\* removal event keeps only the entries of the destroyed cell.
IndexRetainedInverted(g) ==
    [p \in GridKeys |->
        IF removed = {} THEN g[p]
        ELSE IF Cardinality(removed) = 1 /\ g[p] \in removed THEN g[p]
        ELSE NoEntity]

\* The retain loop over the removal events.
IndexRetained(g) ==
    [p \in GridKeys |-> IF g[p] \in removed THEN NoEntity ELSE g[p]]

update_spatial_index ==
    /\ pc = "index"
    /\ pc' = "init"
    /\ grid' = IndexRetained(IndexInserted)
    /\ removed' = {}
    /\ UNCHANGED <<cells, queue, added, despawning, player,
                   since_create, since_destroy, recovered, frame>>

Offset(position, d) == << position[1] + d[1], position[2] + d[2] >>

\* The lookup without cells.get: whatever handle the index stores.
NeighborAtUnchecked(g, cs, pos) ==
    IF pos \in GridKeys THEN g[pos] ELSE NoEntity

\* spatial_index.grid.get(pos) followed by cells.get(entity).
NeighborAt(g, cs, pos) ==
    IF pos \in GridKeys /\ g[pos] # NoEntity /\ cs[g[pos]].live
    THEN g[pos] ELSE NoEntity

IsCollapsedCell(cs, n) == n # NoEntity /\ cs[n].is_collapsed

\* The neighbour scan without the is_collapsed test: any indexed
\* neighbour counts.
HasIndexedNeighbor(e) ==
    \E i \in 1..Len(DIRECTION_VECTORS) :
        NeighborAt(grid, cells,
                   Offset(cells[e].position, DIRECTION_VECTORS[i][2])) # NoEntity

HasCollapsedNeighbor(e) ==
    \E i \in 1..Len(DIRECTION_VECTORS) :
        IsCollapsedCell(cells, NeighborAt(grid, cells,
                               Offset(cells[e].position, DIRECTION_VECTORS[i][2])))

initialize_new_cells ==
    /\ pc = "init"
    /\ pc' = "propagate"
    /\ queue' = queue \o SortedSeq({e \in added : cells[e].live /\ HasCollapsedNeighbor(e)})
    /\ added' = {}
    /\ UNCHANGED <<cells, grid, removed, despawning, player,
                   since_create, since_destroy, recovered, frame>>

\* ------------------------------------------------------------ propagation
\* A pass carries st = [cells, queue, processed, recovered, handled, pops].

\* push_back when the neighbour's candidate count changed.
PushIfChanged(q, ne, prev, filtered) ==
    IF Len(filtered) # Len(prev) THEN Append(q, ne) ELSE q

\* NarrowNeighbor changed to resolve a contradiction by collapsing the cell
\* to Ground.
NarrowNeighborCollapsing(st, ne, prev, filtered) ==
    IF filtered = << >>
    THEN [st EXCEPT !.cells[ne].valid_tiles = <<"Ground">>,
                    !.cells[ne].tile_type = "Ground",
                    !.cells[ne].is_collapsed = TRUE,
                    !.cells[ne].entropy = 0,
                    !.queue = Append(PushIfChanged(st.queue, ne, prev, filtered), ne),
                    !.recovered = @ \cup {ne}]
    ELSE [st EXCEPT !.cells[ne].valid_tiles = filtered,
                    !.queue = PushIfChanged(st.queue, ne, prev, filtered)]

\* NarrowNeighbor resetting a cell left with no candidate to every tile.
NarrowNeighborResettingToAll(st, ne, prev, filtered) ==
    IF filtered = << >>
    THEN [st EXCEPT !.cells[ne].valid_tiles = OpenSpaceRules.all_tiles,
                    !.cells[ne].entropy = Len(OpenSpaceRules.all_tiles),
                    !.queue = Append(PushIfChanged(st.queue, ne, prev, filtered), ne),
                    !.recovered = @ \cup {ne}]
    ELSE [st EXCEPT !.cells[ne].valid_tiles = filtered,
                    !.queue = PushIfChanged(st.queue, ne, prev, filtered)]

\* NarrowNeighbor without the reset of a cell left with no candidate.
NarrowNeighborWithoutRecovery(st, ne, prev, filtered) ==
    [st EXCEPT !.cells[ne].valid_tiles = filtered,
               !.queue = PushIfChanged(st.queue, ne, prev, filtered)]

\* The neighbour ne of the dequeued collapsed cell after filtering.
NarrowNeighbor(st, ne, prev, filtered) ==
    IF filtered = << >>
    THEN [st EXCEPT !.cells[ne].valid_tiles = <<"Ground">>,
                    !.cells[ne].entropy = 1,
                    !.queue = Append(PushIfChanged(st.queue, ne, prev, filtered), ne),
                    !.recovered = @ \cup {ne}]
    ELSE [st EXCEPT !.cells[ne].valid_tiles = filtered,
                    !.queue = PushIfChanged(st.queue, ne, prev, filtered)]

\* VisitNeighbor changed to filter collapsed neighbours as well.
VisitNeighborIncludingCollapsed(st, r, tile, direction, ne) ==
    IF ne = NoEntity THEN st
    ELSE NarrowNeighbor(st, ne, st.cells[ne].valid_tiles,
                        filter_valid_tiles(st.cells[ne].valid_tiles, tile, direction, r))

VisitNeighbor(st, r, tile, direction, ne) ==
    IF ne = NoEntity THEN st
    ELSE IF st.cells[ne].is_collapsed THEN st
    ELSE NarrowNeighbor(st, ne, st.cells[ne].valid_tiles,
                        filter_valid_tiles(st.cells[ne].valid_tiles, tile, direction, r))

\* The collapsed branch leaving its direction loop at the first coordinate
\* without an index entry: direction i is visited only if none before it
\* was missing.
PropagateToNeighborUntilMissing(st, g, r, tile, position, i) ==
    IF \E k \in 1..(i - 1) :
          NeighborAt(g, st.cells, Offset(position, DIRECTION_VECTORS[k][2])) = NoEntity
    THEN st
    ELSE VisitNeighbor(st, r, tile, DIRECTION_VECTORS[i][1],
                       NeighborAt(g, st.cells, Offset(position, DIRECTION_VECTORS[i][2])))

\* One direction of the collapsed branch.
PropagateToNeighbor(st, g, r, tile, position, i) ==
    VisitNeighbor(st, r, tile, DIRECTION_VECTORS[i][1],
                  NeighborAt(g, st.cells, Offset(position, DIRECTION_VECTORS[i][2])))

RECURSIVE PropagateFromCollapsed(_, _, _, _, _, _)
PropagateFromCollapsed(st, g, r, tile, position, i) ==
    IF i > Len(DIRECTION_VECTORS) THEN st
    ELSE PropagateFromCollapsed(PropagateToNeighbor(st, g, r, tile, position, i),
                                g, r, tile, position, i + 1)

\* One direction of the uncollapsed branch; acc = [tiles, changed].
FilterAgainst(acc, cs, r, direction, ne) ==
    IF IsCollapsedCell(cs, ne) /\ cs[ne].tile_type # NoTile
    THEN [tiles |-> filter_valid_tiles(acc.tiles, cs[ne].tile_type, direction, r),
          changed |-> acc.changed
                      \/ Len(filter_valid_tiles(acc.tiles, cs[ne].tile_type, direction, r))
                            # Len(acc.tiles)]
    ELSE acc

\* The dequeued cell's candidates filtered against the collapsed neighbours
\* in directions 1..i.
RECURSIVE NewValidTiles(_, _, _, _, _, _)
NewValidTiles(cs, g, r, valid_tiles, position, i) ==
    IF i = 0 THEN [tiles |-> valid_tiles, changed |-> FALSE]
    ELSE FilterAgainst(NewValidTiles(cs, g, r, valid_tiles, position, i - 1), cs, r,
                       DIRECTION_VECTORS[i][1],
                       NeighborAt(g, cs, Offset(position, DIRECTION_VECTORS[i][2])))

\* The commit without the reset of a cell left with no candidate.
CommitValidTilesWithoutRecovery(st, entity, new) ==
    IF ~new.changed THEN st
    ELSE [st EXCEPT !.cells[entity].valid_tiles = new.tiles,
                    !.cells[entity].entropy = Len(new.tiles)]

\* The commit at the end of the uncollapsed branch.
CommitValidTiles(st, entity, new) ==
    IF ~new.changed THEN st
    ELSE IF new.tiles = << >>
    THEN [st EXCEPT !.cells[entity].valid_tiles = <<"Ground">>,
                    !.cells[entity].entropy = 1,
                    !.recovered = @ \cup {entity}]
    ELSE [st EXCEPT !.cells[entity].valid_tiles = new.tiles,
                    !.cells[entity].entropy = Len(new.tiles)]

RecomputeCell(st, g, r, entity) ==
    CommitValidTiles(st, entity,
        NewValidTiles(st.cells, g, r, st.cells[entity].valid_tiles,
                      st.cells[entity].position, Len(DIRECTION_VECTORS)))

\* The body of the while loop for a handle not seen in this pass.
ProcessEntity(st, g, r, entity) ==
    IF ~st.cells[entity].live THEN st
    ELSE IF st.cells[entity].is_collapsed
    THEN IF st.cells[entity].tile_type = NoTile THEN st
         ELSE PropagateFromCollapsed(st, g, r, st.cells[entity].tile_type,
                                     st.cells[entity].position, 1)
    ELSE RecomputeCell(st, g, r, entity)

\* The loop without the seen-this-pass guard: every popped handle is
\* processed, however often it was queued.
PropagateStepUnguarded(st, g, r) ==
    ProcessEntity([st EXCEPT !.queue = Tail(@),
                             !.processed = @ \cup {Head(st.queue)},
                             !.handled = Append(@, Head(st.queue)),
                             !.pops = @ + 1],
                  g, r, Head(st.queue))

\* One iteration of the while loop: pop the front handle and process it.
\* handled lists the handles that got past the guard, in order, and pops
\* counts the iterations; neither is read by the loop.
PropagateStep(st, g, r) ==
    IF Head(st.queue) \in st.processed
    THEN [st EXCEPT !.queue = Tail(@), !.pops = @ + 1]
    ELSE ProcessEntity([st EXCEPT !.queue = Tail(@),
                                  !.processed = @ \cup {Head(st.queue)},
                                  !.handled = Append(@, Head(st.queue)),
                                  !.pops = @ + 1],
                       g, r, Head(st.queue))

RECURSIVE PropagateLoop(_, _, _)
PropagateLoop(st, g, r) ==
    IF st.queue = << >> THEN st ELSE PropagateLoop(PropagateStep(st, g, r), g, r)

\* The whole pass from the current state.
PropagationPass ==
    PropagateLoop([cells |-> cells, queue |-> queue, processed |-> {},
                   recovered |-> {}, handled |-> << >>, pops |-> 0],
                  grid, OpenSpaceRules)

propagate_regular_constraints ==
    /\ pc = "propagate"
    /\ pc' = "collapse"
    /\ \E out \in {PropagationPass} :
          /\ cells' = out.cells
          /\ queue' = out.queue
          /\ recovered' = out.recovered
    /\ UNCHANGED <<grid, added, removed, despawning, player,
                   since_create, since_destroy, frame>>

\* ------------------------------------------------------------ collapse
\* weights.get(tile).unwrap_or(&1.0), in hundredths.
Weight(r, tile) == IF tile \in DOMAIN r.weights THEN r.weights[tile] ELSE 100

RECURSIVE TotalWeight(_, _, _)
TotalWeight(r, valid_tiles, n) ==
    IF n = 0 THEN 0 ELSE TotalWeight(r, valid_tiles, n - 1) + Weight(r, valid_tiles[n])

\* The loop of get_random_tile from index i on, with `random` what is left of
\* the draw; values are in half hundredths, so weights count twice.
RECURSIVE PickTile(_, _, _, _)
PickTile(r, valid_tiles, random, i) ==
    IF i > Len(valid_tiles) THEN valid_tiles[1]
    ELSE IF random - 2 * Weight(r, valid_tiles[i]) <= 0 THEN valid_tiles[i]
    ELSE PickTile(r, valid_tiles, random - 2 * Weight(r, valid_tiles[i]), i + 1)

\* get_random_tile changed to give every candidate the same share of the
\* range of the draw.
get_random_tile_unweighted(r, valid_tiles, random) ==
    IF valid_tiles = << >> THEN "Ground"
    ELSE valid_tiles[((random * Len(valid_tiles))
                        \div (2 * TotalWeight(r, valid_tiles, Len(valid_tiles)))) + 1]

\* get_random_tile changed to fall back to Ground for a single candidate too.
get_random_tile_single_fallback(r, valid_tiles, random) ==
    IF Len(valid_tiles) <= 1 THEN "Ground" ELSE PickTile(r, valid_tiles, random, 1)

get_random_tile(r, valid_tiles, random) ==
    IF valid_tiles = << >> THEN "Ground" ELSE PickTile(r, valid_tiles, random, 1)

\* Draws of rng.random_range(0.0..total_weight) examined: zero, and for every
\* candidate the middle and the upper end of its share of the range.
Draws(r, valid_tiles) ==
    {d \in {0}
           \cup { 2 * TotalWeight(r, valid_tiles, n) - Weight(r, valid_tiles[n]) :
                    n \in 1..Len(valid_tiles) }
           \cup { 2 * TotalWeight(r, valid_tiles, n) : n \in 1..Len(valid_tiles) } :
        d < 2 * TotalWeight(r, valid_tiles, Len(valid_tiles))}

candidates == {e \in Live : ~cells[e].is_collapsed}

MinOf(S) == CHOOSE m \in S : \A n \in S : m <= n

min_entropy == MinOf({cells[e].entropy : e \in candidates})

\* CollapseTo changed to leave is_collapsed as it was.
CollapseToWithoutFlag(entity, tile) ==
    /\ cells' = [cells EXCEPT ![entity].tile_type = tile,
                              ![entity].entropy = 0]
    /\ queue' = Append(queue, entity)

\* The three assignments and the push_back for the chosen cell.
CollapseTo(entity, tile) ==
    /\ cells' = [cells EXCEPT ![entity].tile_type = tile,
                              ![entity].is_collapsed = TRUE,
                              ![entity].entropy = 0]
    /\ queue' = Append(queue, entity)

\* The candidates of lowest entropy, from which the rng chooses one.
\* The candidate pool without the restriction to the minimum entropy.
candidates_at_any_entropy == candidates

lowest_entropy_candidates ==
    IF candidates = {} THEN {}
    ELSE {e \in candidates : cells[e].entropy = min_entropy}

\* Both ends of the candidate list: the choices of an rng of two outcomes.
FirstOrLast(S) ==
    IF S = {} THEN {}
    ELSE {CHOOSE m \in S : \A n \in S : m <= n, CHOOSE m \in S : \A n \in S : m >= n}

\* collapse_one_of changed to collapse the chosen cell without looking at
\* whether it has a candidate left.
collapse_one_of_unguarded(r, choices) ==
    /\ pc = "collapse"
    /\ pc' = "frame"
    /\ IF queue # << >> \/ candidates = {}
       THEN UNCHANGED <<cells, queue>>
       ELSE \E entity \in choices :
              \E tile \in { get_random_tile(r, cells[entity].valid_tiles,
                                            random) :
                            random \in {0} \cup Draws(r,
                                                      cells[entity].valid_tiles) } :
                  CollapseTo(entity, tile)
    /\ UNCHANGED <<grid, added, removed, despawning, player,
                   since_create, since_destroy, recovered, frame>>

\* collapse_one_of without the early return on a non-empty queue.
collapse_one_of_ignoring_queue(r, choices) ==
    /\ pc = "collapse"
    /\ pc' = "frame"
    /\ IF candidates = {}
       THEN UNCHANGED <<cells, queue>>
       ELSE \E entity \in choices :
              IF cells[entity].valid_tiles = << >>
              THEN UNCHANGED <<cells, queue>>
              ELSE \E tile \in { get_random_tile(r, cells[entity].valid_tiles,
                                                 random) :
                                 random \in Draws(r, cells[entity].valid_tiles) } :
                     CollapseTo(entity, tile)
    /\ UNCHANGED <<grid, added, removed, despawning, player,
                   since_create, since_destroy, recovered, frame>>

\* collapse_lowest_entropy_cell under rules r, with the rng choosing the cell
\* from `choices`.
collapse_one_of(r, choices) ==
    /\ pc = "collapse"
    /\ pc' = "frame"
    /\ IF queue # << >> \/ candidates = {}
       THEN UNCHANGED <<cells, queue>>
       ELSE \E entity \in choices :
              IF cells[entity].valid_tiles = << >>
              THEN UNCHANGED <<cells, queue>>
              ELSE \E tile \in { get_random_tile(r, cells[entity].valid_tiles,
                                                 random) :
                                 random \in Draws(r, cells[entity].valid_tiles) } :
                     CollapseTo(entity, tile)
    /\ UNCHANGED <<grid, added, removed, despawning, player,
                   since_create, since_destroy, recovered, frame>>

collapse_lowest_entropy_cell ==
    collapse_one_of(OpenSpaceRules, lowest_entropy_candidates)

\* ------------------------------------------------------------ frame
\* The observer's moves between two frames: one cell along x, or none.
PlayerMoves ==
    {<< x, player[2] >> :
        x \in {w \in {player[1] - cell_edge_length, player[1],
                      player[1] + cell_edge_length} :
                 w >= 0 /\ w <= MaxPlayerCells * cell_edge_length}}

\* End of the schedule (queued despawns are applied, their removal events
\* recorded), then the clock and the observer advance to the next frame.
next_frame ==
    /\ pc = "frame"
    /\ pc' = "create"
    /\ frame < MaxFrames
    /\ frame' = frame + 1
    /\ cells' = [e \in Entities |-> IF e \in despawning THEN DeadCell ELSE cells[e]]
    /\ removed' = removed \cup despawning
    /\ despawning' = {}
    /\ \E delta \in FrameDeltas :
          /\ since_create' = Min(since_create + delta, UPDATE_INTERVAL_MS)
          /\ since_destroy' = Min(since_destroy + delta, DESPAWN_INTERVAL_MS)
    /\ player' \in PlayerMoves
    /\ UNCHANGED <<grid, queue, added, recovered>>

Next ==
    \/ create_cells
    \/ destroy_cells
    \/ update_spatial_index
    \/ initialize_new_cells
    \/ propagate_regular_constraints
    \/ collapse_lowest_entropy_cell
    \/ next_frame

Spec == Init /\ [][Next]_vars

\* ------------------------------------------------------------ sanity
TypeOK ==
    /\ \A e \in Entities : cells[e].live => cells[e].position \in GridKeys
    /\ pc \in {"frame", "create", "destroy", "index", "init", "propagate", "collapse"}

\* ------------------------------------------------------------ observations
TileSet(list) == {list[i] : i \in 1..Len(list)}

\* The live cell whose Cell.position is pos, if any.
CellsAt(pos) == {e \in Live : cells[e].position = pos}

\* The list a tile allows on one of its sides.
AllowedOn(tile, direction) == OpenSpaceRules.allowed_neighbors[tile][direction]

\* ------------------------------------------------------------ C1
\* C1: for every live uncollapsed cell, in every reachable state, the entropy
\* field equals the number of tiles in valid_tiles.
C1_EntropyEqualsCandidateCount ==
    \A e \in Live :
        ~cells[e].is_collapsed => cells[e].entropy = Len(cells[e].valid_tiles)

\* ------------------------------------------------------------ C2
\* C2: whenever a propagation pass has drained the queue, every live
\* uncollapsed cell C with a collapsed cell N at C.position + D has only
\* candidates that N's tile allows on the side facing C, that is, in the
\* direction from N to C, the opposite of D.
C2_LocalConsistencyAfterPass ==
    pc = "collapse" =>
        \A c \in Live : \A i \in 1..Len(DIRECTION_VECTORS) :
            \A n \in CellsAt(Offset(cells[c].position, DIRECTION_VECTORS[i][2])) :
                (~cells[c].is_collapsed /\ cells[n].is_collapsed)
                => TileSet(cells[c].valid_tiles)
                     \subseteq TileSet(AllowedOn(cells[n].tile_type,
                                   get_opposite_direction(DIRECTION_VECTORS[i][1])))

C4_IndexAgreesWithLiveCells ==
    pc = "create" =>
        /\ \A p \in GridKeys :
              grid[p] # NoEntity
              => cells[grid[p]].live /\ cells[grid[p]].position = p
        /\ \A e \in Live :
              cells[e].position \in GridKeys /\ grid[cells[e].position] = e

\* ------------------------------------------------------------ C5
\* C5: in every reachable state and for every live cell, is_collapsed is true
\* if and only if tile_type is Some.
C5_CollapsedIffTile ==
    \A e \in Live : cells[e].is_collapsed <=> cells[e].tile_type # NoTile

\* A collapsed cell and a cell reset by contradiction recovery are live
\* together.
C5_Witness ==
    /\ \E e \in Live : cells[e].is_collapsed /\ cells[e].tile_type \in TileType
    /\ \E e \in recovered : cells[e].live /\ ~cells[e].is_collapsed

\* ------------------------------------------------------------ C6
\* C6: collapsed is terminal. No step changes is_collapsed, tile_type or
\* valid_tiles of a live collapsed cell, and its entropy stays 0, for as long
\* as the cell is live.
C6_CollapsedIsTerminal ==
    [][\A e \in Entities :
          (cells[e].live /\ cells[e].is_collapsed /\ cells'[e].live)
          => /\ cells'[e].is_collapsed
             /\ cells'[e].tile_type = cells[e].tile_type
             /\ cells'[e].valid_tiles = cells[e].valid_tiles
             /\ cells[e].entropy = 0
             /\ cells'[e].entropy = 0]_vars

\* A pass has run with two collapsed cells side by side, one of which kept
\* more than one candidate in valid_tiles.
C6_Witness ==
    /\ pc = "collapse"
    /\ \E e \in Live : \E i \in 1..Len(DIRECTION_VECTORS) :
          \E n \in CellsAt(Offset(cells[e].position, DIRECTION_VECTORS[i][2])) :
              /\ cells[e].is_collapsed
              /\ cells[n].is_collapsed
              /\ Len(cells[n].valid_tiles) > 1
              /\ grid[cells[n].position] = n

\* ------------------------------------------------------------ C7
\* The list looked up for the uncollapsed cell at the i-th offset from a
\* collapsed cell holding `tile` when the collapsed cell is dequeued ...
CollapsedBranchFilter(tile, i) ==
    filter_valid_tiles(ModelTiles, tile, DIRECTION_VECTORS[i][1], OpenSpaceRules)

\* ... and when the uncollapsed cell is dequeued and finds the collapsed cell
\* at the j-th offset from itself.
UncollapsedBranchFilter(tile, j) ==
    filter_valid_tiles(ModelTiles, tile, DIRECTION_VECTORS[j][1], OpenSpaceRules)

\* C7: for a collapsed cell N holding tile T and an uncollapsed cell C at
\* N.position + D, the rule entry C's candidates are intersected with is the
\* same whether N was dequeued or C was dequeued.
C7_OneDirectionConvention ==
    \A n \in Live : \A i \in 1..Len(DIRECTION_VECTORS) :
        \A c \in CellsAt(Offset(cells[n].position, DIRECTION_VECTORS[i][2])) :
            (cells[n].is_collapsed /\ ~cells[c].is_collapsed)
            => \A j \in 1..Len(DIRECTION_VECTORS) :
                  Offset(cells[c].position, DIRECTION_VECTORS[j][2]) = cells[n].position
                  => CollapsedBranchFilter(cells[n].tile_type, i)
                       = UncollapsedBranchFilter(cells[n].tile_type, j)

\* ------------------------------------------------------------ C8
\* The collapsed cells among the indexed neighbours of c.
CollapsedNeighbors(c) ==
    {n \in Live : cells[n].is_collapsed
                  /\ \E j \in 1..Len(DIRECTION_VECTORS) :
                        NeighborAt(grid, cells,
                            Offset(cells[c].position, DIRECTION_VECTORS[j][2])) = n}

\* C8: when a pass starts with a collapsed cell holding tile A in the queue,
\* every present uncollapsed neighbour at offset D from it ends the pass with
\* exactly its prior valid_tiles intersected with allowed_neighbors[A][D],
\* whenever that intersection is non-empty. Stated for neighbours that have
\* no other collapsed neighbour.
C8_NeighbourEndsWithIntersection ==
    [][pc = "propagate" =>
        \A k \in 1..Len(queue) : \A i \in 1..Len(DIRECTION_VECTORS) :
            \A c \in {NeighborAt(grid, cells,
                        Offset(cells[queue[k]].position, DIRECTION_VECTORS[i][2]))}
                     \ {NoEntity} :
                ( /\ cells[queue[k]].live
                  /\ cells[queue[k]].is_collapsed
                  /\ ~cells[c].is_collapsed
                  /\ CollapsedNeighbors(c) = {queue[k]}
                  /\ Retain(cells[c].valid_tiles,
                            AllowedOn(cells[queue[k]].tile_type,
                                      DIRECTION_VECTORS[i][1])) # << >> )
                => TileSet(cells'[c].valid_tiles)
                     = TileSet(Retain(cells[c].valid_tiles,
                                      AllowedOn(cells[queue[k]].tile_type,
                                                DIRECTION_VECTORS[i][1])))]_vars

\* ------------------------------------------------------------ C9
\* C9: whenever the collapse step collapses a cell, that cell has the fewest
\* tiles in valid_tiles among all uncollapsed live cells at that moment.
C9_CollapsesFewestCandidates ==
    [][\A e \in Entities :
          (pc = "collapse" /\ cells[e].live /\ ~cells[e].is_collapsed
              /\ cells'[e].is_collapsed)
          => \A c \in candidates :
                Len(cells[e].valid_tiles) <= Len(cells[c].valid_tiles)]_vars

\* ------------------------------------------------------------ C10
\* C10: a collapse call either changes no cell and not the queue, or resolves
\* exactly one uncollapsed live cell: its tile_type becomes a member of its
\* valid_tiles as they stood before the call, is_collapsed becomes true,
\* entropy 0, the cell is appended to the propagation queue, and every other
\* cell is left unchanged.
C10_CollapseResolvesOneCell ==
    [][pc = "collapse" =>
        \/ cells' = cells /\ queue' = queue
        \/ \E e \in Live :
              /\ ~cells[e].is_collapsed
              /\ Contains(cells[e].valid_tiles, cells'[e].tile_type)
              /\ cells'[e] = [cells[e] EXCEPT !.tile_type = cells'[e].tile_type,
                                              !.is_collapsed = TRUE,
                                              !.entropy = 0]
              /\ queue' = Append(queue, e)
              /\ \A o \in Entities \ {e} : cells'[o] = cells[o]]_vars

\* A collapse call has just resolved a cell whose only candidate was Ground,
\* to Ground, while other cells were uncollapsed.
C10_Witness ==
    /\ pc = "frame"
    /\ queue # << >>
    /\ cells[queue[Len(queue)]].is_collapsed
    /\ cells[queue[Len(queue)]].valid_tiles = <<"Ground">>
    /\ cells[queue[Len(queue)]].tile_type = "Ground"
    /\ candidates # {}

\* ------------------------------------------------------------ C11
\* Every live uncollapsed cell holds only tiles that each collapsed cell
\* beside it allows on the side facing it.
AllCellsConsistent ==
    \A c \in Live : \A i \in 1..Len(DIRECTION_VECTORS) :
        \A n \in CellsAt(Offset(cells[c].position, DIRECTION_VECTORS[i][2])) :
            (~cells[c].is_collapsed /\ cells[n].is_collapsed)
            => TileSet(cells[c].valid_tiles)
                 \subseteq TileSet(AllowedOn(cells[n].tile_type,
                               get_opposite_direction(DIRECTION_VECTORS[i][1])))

\* The cells after a pass over the queue q from the current state.
CellsAfterPassOn(q) ==
    PropagateLoop([cells |-> cells, queue |-> q, processed |-> {},
                   recovered |-> {}, handled |-> << >>, pops |-> 0],
                  grid, OpenSpaceRules).cells

\* C11: propagation is idempotent. Once a pass has drained the queue and
\* every cell is consistent with its collapsed neighbours, a pass over a
\* queue holding any live cell, once or twice, changes no cell.
C11_PassOnConsistentCellsChangesNothing ==
    (pc = "collapse" /\ AllCellsConsistent)
    => \A e \in Live :
          /\ CellsAfterPassOn(<<e>>) = cells
          /\ CellsAfterPassOn(<<e, e>>) = cells

\* ------------------------------------------------------------ C12
\* The square of grid coordinates around the observer's grid cell.
ObserverSquare ==
    {<< x, z >> :
        x \in (RoundDiv(player[1], cell_edge_length) - half_size)
              ..(RoundDiv(player[1], cell_edge_length) + half_size),
        z \in (RoundDiv(player[2], cell_edge_length) - half_size)
              ..(RoundDiv(player[2], cell_edge_length) + half_size)}

\* The live cells at pos once the step is done.
CellsAtAfter(pos) == {e \in Entities : cells'[e].live /\ cells'[e].position = pos}

\* C12: after a creation pass every coordinate of the square around the
\* observer's grid cell holds exactly one live cell, a cell was created only
\* at a coordinate of the square that had none, the cells that existed are
\* untouched, an empty grid gets exactly the cells of the square, and at no
\* time do two live cells share a grid coordinate.
C12_CreationFillsSquareOnce ==
    /\ [](\A e \in Live : CellsAt(cells[e].position) = {e})
    /\ [][(pc = "create" /\ since_create >= UPDATE_INTERVAL_MS)
          => /\ \A p \in ObserverSquare : Cardinality(CellsAtAfter(p)) = 1
             /\ \A e \in Entities :
                   IF cells[e].live THEN cells'[e] = cells[e]
                   ELSE cells'[e].live
                        => /\ cells'[e].position \in ObserverSquare
                           /\ CellsAt(cells'[e].position) = {}
                           /\ cells'[e]
                                = NewCell(OpenSpaceRules.all_tiles, cells'[e].position,
                                    << cells'[e].position[1] * cell_edge_length,
                                       cells'[e].position[2] * cell_edge_length >>)
             /\ Live = {}
                => Cardinality({e \in Entities : cells'[e].live})
                     = WindowEdge * WindowEdge]_vars

\* A creation pass has just run with the observer one cell along +x from the
\* first window and added exactly the three cells of the new fringe column.
C12_Witness ==
    /\ pc = "destroy"
    /\ RoundDiv(player[1], cell_edge_length) = 1
    /\ Cardinality(Live) = WindowEdge * WindowEdge + WindowEdge
    /\ Cardinality(added) = WindowEdge
    /\ \A e \in added : cells[e].position[1] = 1 + half_size

\* ------------------------------------------------------------ C13
\* The square of the world-space distance between the observer and cell e.
DistanceSquared(e) ==
    (player[1] - cells[e].translation[1]) * (player[1] - cells[e].translation[1])
    + PlayerY * PlayerY
    + (player[2] - cells[e].translation[2]) * (player[2] - cells[e].translation[2])

\* distance > cells * cell_edge_length * spawn_distance, on the squares.
Beyond(e, cells_across) ==
    SpawnDistanceDen * SpawnDistanceDen * DistanceSquared(e)
      > (cells_across * cell_edge_length * SpawnDistanceNum)
        * (cells_across * cell_edge_length * SpawnDistanceNum)

\* One step: a destruction pass queues exactly the live cells beyond
\* `cells_across` cells, and the end of the frame destroys exactly the queued
\* cells.
DestroysExactlyBeyond(cells_across) ==
    /\ (pc = "destroy" /\ since_destroy >= DESPAWN_INTERVAL_MS)
          => despawning' = {e \in Live : Beyond(e, cells_across)}
    /\ pc = "frame"
          => \A e \in Entities :
                cells'[e].live <=> (cells[e].live /\ e \notin despawning)

\* C13 as stated: a destruction pass destroys exactly the live cells farther
\* from the observer than radius x edge_length x despawn_multiplier, the
\* radius being the half-size creation uses.
C13_DestroysBeyondRadius == [][DestroysExactlyBeyond(half_size)]_vars

\* C13 as the code has it: a destruction pass destroys exactly the live
\* cells farther from the observer than
\* total_cells_on_edge x cell_edge_length x spawn_distance, the full edge of
\* the square in cells, and no cell at or within that distance.
C13_DestroysBeyondEdge == [][DestroysExactlyBeyond(total_cells_on_edge)]_vars

\* A destruction pass has queued the trailing column and spared the cells of
\* the square around the observer.
C13_Witness ==
    /\ pc = "index"
    /\ since_destroy = 0
    /\ Cardinality(despawning) = WindowEdge
    /\ \A e \in despawning : cells[e].live /\ cells[e].position \notin ObserverSquare
    /\ \A p \in ObserverSquare : \E e \in CellsAt(p) : e \notin despawning

\* ------------------------------------------------------------ C14
\* Live cell c still holds every tile of the catalog although the collapsed
\* live cell on one of its sides forbids some of them.
UnconstrainedBesideCollapsed(c) ==
    /\ ~cells[c].is_collapsed
    /\ cells[c].valid_tiles = OpenSpaceRules.all_tiles
    /\ \E i \in 1..Len(DIRECTION_VECTORS) :
          \E n \in CellsAt(Offset(cells[c].position, DIRECTION_VECTORS[i][2])) :
              /\ cells[n].is_collapsed
              /\ ~(TileSet(cells[c].valid_tiles) \subseteq
                     TileSet(AllowedOn(cells[n].tile_type,
                                       get_opposite_direction(DIRECTION_VECTORS[i][1]))))

\* C14: whenever the collapse step is about to run, no live uncollapsed cell
\* with a collapsed neighbour still holds the full candidate set with tiles
\* that neighbour forbids: a cell created beside a collapsed cell has been
\* indexed, initialized and constrained by then.
C14_NewCellConstrainedBeforeCollapse ==
    pc = "collapse" => \A c \in Live : ~UnconstrainedBesideCollapsed(c)


\* ------------------------------------------------------------ C15
\* The systems of one frame in the order the two chains and the plugin
\* registration give them.
PhaseOrder ==
    << "create", "destroy", "index", "init", "propagate", "collapse", "frame" >>

\* The index after update_spatial_index has every cell spawned by this
\* frame's create_cells under its position and no entry for a cell this
\* frame's destroy_cells has destroyed.
IndexSeesStreaming ==
    /\ \A e \in added : cells[e].position \in GridKeys /\ grid[cells[e].position] = e
    /\ \A e \in despawning : \A k \in GridKeys : grid[k] # e

\* C15: every step of a frame is one whole phase and the phases follow each
\* other in the order create, destroy, index update, initialization,
\* propagation, collapse; and the index update of a frame has observed the
\* cells created and the cells destroyed by the streaming phase of that same
\* frame.
C15_PhasesInOrderIndexSeesStreaming ==
    /\ [][\E i \in 1..Len(PhaseOrder) :
             /\ pc = PhaseOrder[i]
             /\ pc' = PhaseOrder[(i % Len(PhaseOrder)) + 1]]_vars
    /\ [](pc = "init" => IndexSeesStreaming)


\* ------------------------------------------------------------ C16
\* One collapse step taken while some live cell is uncollapsed collapses one
\* of them and touches no other cell.
CollapsesOne ==
    (pc = "collapse" /\ candidates # {})
    => \E e \in candidates :
          /\ cells'[e].is_collapsed
          /\ \A o \in Entities \ {e} : cells'[o] = cells[o]


\* The end of a frame for an observer that stands still: despawns applied,
\* the clock advanced, the observer where it was.  The frame counter only
\* bounds the observer's walk and is not advanced.
stationary_frame ==
    /\ pc = "frame"
    /\ pc' = "create"
    /\ cells' = [e \in Entities |-> IF e \in despawning THEN DeadCell ELSE cells[e]]
    /\ removed' = removed \cup despawning
    /\ despawning' = {}
    /\ \E delta \in FrameDeltas :
          /\ since_create' = Min(since_create + delta, UPDATE_INTERVAL_MS)
          /\ since_destroy' = Min(since_destroy + delta, DESPAWN_INTERVAL_MS)
    /\ UNCHANGED <<player, frame, grid, queue, added, recovered>>

\* collapse_lowest_entropy_cell with an rng of two outcomes for the cell.
collapse_first_or_last ==
    collapse_one_of(OpenSpaceRules, FirstOrLast(lowest_entropy_candidates))

StationaryNext ==
    \/ create_cells
    \/ destroy_cells
    \/ update_spatial_index
    \/ initialize_new_cells
    \/ propagate_regular_constraints
    \/ collapse_first_or_last
    \/ stationary_frame

\* Some system of the schedule runs next.
SystemRuns == pc' \in {PhaseOrder[i] : i \in 1..Len(PhaseOrder)} /\ pc' # pc

\* The schedule runs every frame and each system hands over to the next, so
\* the step from one system to the next is always taken eventually.
StationarySpec == Init /\ [][StationaryNext]_vars /\ WF_pc(SystemRuns)

AllCollapsed == Live # {} /\ \A e \in Live : cells[e].is_collapsed

\* Streaming has nothing to do and nothing pending: the square around the
\* observer is filled, no live cell is beyond the despawn distance, and no
\* spawn, despawn or removal is waiting to be processed.
StreamingAtRest ==
    /\ CellsToCreate = << >>
    /\ \A e \in Live : ~TooFar(e)
    /\ added = {} /\ despawning = {} /\ removed = {}

CreationBodyRan == pc = "create" /\ (since_create' # since_create \/ cells' # cells)

\* The body of destroy_cells ran in this step.
DestructionBodyRan ==
    pc = "destroy" /\ (since_destroy' # since_destroy \/ despawning' # despawning
                       \/ grid' # grid)

\* C17: the creation body runs only when at least the creation interval has
\* elapsed since it last ran, the destruction body only when at least the
\* destruction interval has elapsed since it last ran; a call made earlier
\* changes nothing; and a creation call leaves the destruction clock alone,
\* a destruction call the creation clock.
C17_ThrottlesAreIndependent ==
    /\ [][CreationBodyRan => since_create >= UPDATE_INTERVAL_MS]_vars
    /\ [][DestructionBodyRan => since_destroy >= DESPAWN_INTERVAL_MS]_vars
    /\ [][(pc = "create" /\ since_create < UPDATE_INTERVAL_MS)
          => UNCHANGED <<cells, grid, queue, added, removed, despawning, player,
                         since_create, since_destroy>>]_vars
    /\ [][(pc = "destroy" /\ since_destroy < DESPAWN_INTERVAL_MS)
          => UNCHANGED <<cells, grid, queue, added, removed, despawning, player,
                         since_create, since_destroy>>]_vars
    /\ [][pc = "create" => since_destroy' = since_destroy]_vars
    /\ [][pc = "destroy" => since_create' = since_create]_vars

\* A creation call has just been skipped, half an interval after creation
\* last ran, although the observer has moved and the square has cells missing.
C17_Witness ==
    /\ pc = "destroy"
    /\ Live # {}
    /\ since_create > 0 /\ since_create < UPDATE_INTERVAL_MS
    /\ CellsToCreate # << >>
    /\ added = {}


\* ------------------------------------------------------------ C18
\* The collapse system taken by itself, on the cells and the queue it may be
\* handed.  Propagation never leaves an uncollapsed cell without a candidate,
\* so the branch of collapse_lowest_entropy_cell for such a cell is reached
\* only from inputs drawn here.
InputCells == 2

InputValidTiles ==
    { << >>, <<"Ground">>, <<"Ground", "Chest">>, <<"Chest", "Ground">>,
      OpenSpaceRules.all_tiles }

\* The states a Cell may be handed over in, position aside.
CellInputs ==
    {DeadCell}
    \cup { [NewCell(v, <<0, 0>>, <<0, 0>>) EXCEPT !.entropy = n] :
             v \in InputValidTiles, n \in {0, 1, Len(OpenSpaceRules.all_tiles)} }
    \cup { [NewCell(OpenSpaceRules.all_tiles, <<0, 0>>, <<0, 0>>)
              EXCEPT !.is_collapsed = TRUE, !.tile_type = t, !.entropy = 0] :
             t \in {"Ground", "Chest"} }

\* Cell c as the e-th cell of a row along x.
PlacedInRow(c, e) ==
    IF c.live
    THEN [c EXCEPT !.position = <<e - 1, 0>>,
                   !.translation = <<(e - 1) * cell_edge_length, 0>>]
    ELSE c

CollapseInit ==
    /\ cells \in { [e \in Entities |->
                       IF e <= InputCells THEN PlacedInRow(row[e], e) ELSE DeadCell] :
                   row \in [1..InputCells -> CellInputs] }
    /\ grid = [p \in GridKeys |->
                 IF \E e \in 1..InputCells : cells[e].live /\ cells[e].position = p
                 THEN CHOOSE e \in 1..InputCells : cells[e].live /\ cells[e].position = p
                 ELSE NoEntity]
    /\ queue \in {<< >>, <<1>>}
    /\ added = {}
    /\ removed = {}
    /\ despawning = {}
    /\ player = <<0, 0>>
    /\ since_create = 0
    /\ since_destroy = 0
    /\ recovered = {}
    /\ frame = 0
    /\ pc = "collapse"

CollapseNext == collapse_lowest_entropy_cell

CollapseSpec == CollapseInit /\ [][CollapseNext]_vars

\* C18: a collapse call made while no live cell is uncollapsed changes no cell
\* and no queue entry; a lowest-entropy cell without a candidate is left as it
\* is, uncollapsed with no tile, and is not enqueued; and when every cell the
\* call can choose is without a candidate the call changes nothing.
C18_CollapseNoOpWhenNothingToResolve ==
    [][pc = "collapse" =>
         /\ candidates = {} => UNCHANGED <<cells, queue>>
         /\ \A e \in lowest_entropy_candidates :
               cells[e].valid_tiles = << >>
               => /\ cells'[e] = cells[e]
                  /\ ~cells'[e].is_collapsed /\ cells'[e].tile_type = NoTile
                  /\ queue' # Append(queue, e)
         /\ (\A e \in lowest_entropy_candidates : cells[e].valid_tiles = << >>)
               => UNCHANGED <<cells, queue>>]_vars

\* The collapse step has run on an empty queue with one lowest-entropy cell,
\* which has no candidate, and a second uncollapsed cell which has some.
C18_Witness ==
    /\ pc = "frame"
    /\ queue = << >>
    /\ \E e \in candidates :
          /\ cells[e].valid_tiles = << >>
          /\ lowest_entropy_candidates = {e}
          /\ \E o \in candidates : cells[o].valid_tiles # << >>


\* ------------------------------------------------------------ C19
\* Tile a lists tile b on its side d.
Lists(a, d, b) == Contains(OpenSpaceRules.allowed_neighbors[a][d], b)

\* Cell::new at `position`, then collapsed to `tile`.
CollapsedCell(tile, position) ==
    [NewCell(OpenSpaceRules.all_tiles, position,
             << position[1] * cell_edge_length, position[2] * cell_edge_length >>)
        EXCEPT !.is_collapsed = TRUE, !.tile_type = tile, !.entropy = 0]

\* Two collapsed cells side by side: every pair of tiles of the catalog, the
\* second on every side of the first, both queued for propagation.
RulesInit ==
    /\ \E a \in TileType : \E b \in TileType : \E i \in 1..Len(DIRECTION_VECTORS) :
          cells = [e \in Entities |->
                     IF e = 1 THEN CollapsedCell(a, <<0, 0>>)
                     ELSE IF e = 2 THEN CollapsedCell(b, DIRECTION_VECTORS[i][2])
                     ELSE DeadCell]
    /\ grid = [p \in GridKeys |->
                 IF cells[1].position = p THEN 1
                 ELSE IF cells[2].position = p THEN 2 ELSE NoEntity]
    /\ queue = <<1, 2>>
    /\ added = {}
    /\ removed = {}
    /\ despawning = {}
    /\ player = <<0, 0>>
    /\ since_create = 0
    /\ since_destroy = 0
    /\ recovered = {}
    /\ frame = 0
    /\ pc = "propagate"

RulesNext ==
    \/ propagate_regular_constraints
    \/ collapse_lowest_entropy_cell

RulesSpec == RulesInit /\ [][RulesNext]_vars

\* C19: the default open-space rule table is consistent under direction
\* reversal: for two collapsed cells side by side, the tile A of the one lists
\* the tile B of the other on the side D where that cell lies exactly when B
\* lists A on the opposite side.
C19_RulesConsistentUnderReversal ==
    \A c \in Live : \A i \in 1..Len(DIRECTION_VECTORS) :
        \A n \in CellsAt(Offset(cells[c].position, DIRECTION_VECTORS[i][2])) :
            (cells[c].is_collapsed /\ cells[n].is_collapsed)
            => (Lists(cells[c].tile_type, DIRECTION_VECTORS[i][1], cells[n].tile_type)
                <=> Lists(cells[n].tile_type,
                          get_opposite_direction(DIRECTION_VECTORS[i][1]),
                          cells[c].tile_type))


\* ------------------------------------------------------------ C20
\* A rule table whose weights are 3.0 for Ground and, no weight being given,
\* the default 1.0 for every other tile.
ThreeToOneRules == [OpenSpaceRules EXCEPT !.weights = [Ground |-> 300]]

collapse_three_to_one ==
    collapse_one_of(ThreeToOneRules, lowest_entropy_candidates)

DrawNext == collapse_three_to_one

\* The collapse system by itself on drawn cells, under the 3:1 weights.
DrawSpec == CollapseInit /\ [][DrawNext]_vars

\* The draws of rng.random_range(0.0..total_weight) on an even grid of half
\* hundredths.
DrawGrid(r, valid_tiles) ==
    0 .. (2 * TotalWeight(r, valid_tiles, Len(valid_tiles)) - 1)

\* How many draws of the grid select `tile`.
Share(r, valid_tiles, tile) ==
    Cardinality({d \in DrawGrid(r, valid_tiles) :
                    get_random_tile(r, valid_tiles, d) = tile})

\* C20: for a cell with two candidates whose weights are 3:1, the draws that
\* select the heavier tile are three times the draws that select the lighter
\* one, to within one draw in a hundred of an even grid over the range, so the
\* selection ratio over many uniform draws tends to 3:1.
C20_SelectionInProportionToWeights ==
    \A e \in candidates :
        \A v \in {cells[e].valid_tiles} :
            (Len(v) = 2 /\ v[1] # v[2]
             /\ \E i \in 1..2 :
                   /\ v[i] \in DOMAIN ThreeToOneRules.weights
                   /\ ThreeToOneRules.weights[v[i]] = 300
                   /\ v[3 - i] \notin DOMAIN ThreeToOneRules.weights)
            => \E i \in 1..2 :
                  \E heavy \in {Share(ThreeToOneRules, v, v[i])} :
                  \E light \in {Share(ThreeToOneRules, v, v[3 - i])} :
                      /\ v[i] \in DOMAIN ThreeToOneRules.weights
                      /\ heavy + light = Cardinality(DrawGrid(ThreeToOneRules, v))
                      /\ 100 * (heavy - 3 * light) <= heavy + light
                      /\ 100 * (3 * light - heavy) <= heavy + light

\* The collapse step has drawn the lighter tile for a cell whose two
\* candidates weigh 3:1, the heavier one first.
C20_Witness ==
    /\ pc = "frame"
    /\ \E e \in Live :
          /\ cells[e].is_collapsed
          /\ cells[e].valid_tiles = <<"Ground", "Chest">>
          /\ cells[e].tile_type = "Chest"
          /\ InQueue(e)


\* ------------------------------------------------------------ C21
\* Cell e has not been through contradiction recovery: recovery leaves
\* valid_tiles = [Ground], and no later step widens valid_tiles.
NeverRecovered(e) == cells[e].valid_tiles # <<"Ground">>

\* The tiles of cell c and of the cell n on side i of c agree with the table
\* read from the earlier of the two, whichever of them collapsed first.
AdjacentTilesAllowed(c, n, i) ==
    \/ Lists(cells[c].tile_type, DIRECTION_VECTORS[i][1], cells[n].tile_type)
    \/ Lists(cells[n].tile_type, get_opposite_direction(DIRECTION_VECTORS[i][1]),
             cells[c].tile_type)

\* C21: whenever two orthogonally adjacent live cells are both collapsed and
\* neither has been through contradiction recovery, the tile of the one that
\* collapsed later is in the list the tile of the earlier one allows on the
\* side where the later one lies; stated for either order of collapse.
C21_AdjacentCollapsedTilesAllowed ==
    \A c \in Live : \A i \in 1..Len(DIRECTION_VECTORS) :
        \A n \in CellsAt(Offset(cells[c].position, DIRECTION_VECTORS[i][2])) :
            (cells[c].is_collapsed /\ cells[n].is_collapsed
             /\ NeverRecovered(c) /\ NeverRecovered(n))
            => AdjacentTilesAllowed(c, n, i)


\* ------------------------------------------------------------ C22
\* C22: a destruction pass that destroys the cell at grid coordinate p leaves
\* no index entry under p in that same step, and leaves the entry of every
\* cell that stays live as it was.
C22_DestroyRemovesOwnIndexEntry ==
    [][pc = "destroy" =>
         /\ \A e \in despawning' \ despawning :
               cells[e].position \in GridKeys => grid'[cells[e].position] = NoEntity
         /\ \A e \in Live \ despawning' :
               cells[e].position \in GridKeys
               => grid'[cells[e].position] = grid[cells[e].position]]_vars


\* ------------------------------------------------------------ C23
\* After the step, the candidates of cell n, on side i of the collapsed cell
\* e, have been filtered by a list of e's tile for that side (either reading
\* of the direction), or n has been reset by contradiction recovery.
ConstraintApplied(e, n, i) ==
    \/ TileSet(cells'[n].valid_tiles)
          \subseteq TileSet(AllowedOn(cells[e].tile_type, DIRECTION_VECTORS[i][1]))
    \/ TileSet(cells'[n].valid_tiles)
          \subseteq TileSet(AllowedOn(cells[e].tile_type,
                                      get_opposite_direction(DIRECTION_VECTORS[i][1])))
    \/ cells'[n].valid_tiles = <<"Ground">>

\* C23: the queue is empty whenever the collapse step runs; it holds at most
\* one entry at every frame boundary; and the pass of the frame after a
\* collapse applies the collapsed cell's constraints to every uncollapsed
\* live cell beside it, before the next collapse is chosen.
C23_PassDrainsQueueAndConstrainsNeighbours ==
    /\ [](pc = "collapse" => queue = << >>)
    /\ [](pc \in {"frame", "create"} => Len(queue) <= 1)
    /\ [][(pc = "propagate" /\ queue # << >>)
          => \A e \in {Head(queue)} :
                (cells[e].live /\ cells[e].is_collapsed)
                => \A i \in 1..Len(DIRECTION_VECTORS) :
                      \A n \in CellsAt(Offset(cells[e].position, DIRECTION_VECTORS[i][2])) :
                          ~cells[n].is_collapsed => ConstraintApplied(e, n, i)]_vars

\* ------------------------------------------------ C24: pass termination

\* The handles a pass may find in its queue: the placed cells and one
\* handle whose cell has been despawned.
QueueHandles == 1..(InputCells + 1)

MaxQueueLen == 3

InputQueues ==
    UNION { [1..n -> QueueHandles] : n \in 0..MaxQueueLen }

\* A pass handed any cells and any queue, duplicates and handles of
\* destroyed cells included.
\* The index handed to a pass: the entries of the live cells and, when
\* stale_row or stale_front say so, entries left behind by destroyed cells:
\* at the row slot of a dead cell, and in front of the first cell.
InputIndex(cs, stale_row, stale_front) ==
    [p \in GridKeys |->
        IF \E e \in 1..InputCells : cs[e].live /\ cs[e].position = p
        THEN CHOOSE e \in 1..InputCells : cs[e].live /\ cs[e].position = p
        ELSE IF stale_row /\ (\E e \in 1..InputCells : ~cs[e].live /\ p = <<e - 1, 0>>)
        THEN CHOOSE e \in 1..InputCells : ~cs[e].live /\ p = <<e - 1, 0>>
        ELSE IF stale_front /\ p = <<0, 1>> THEN InputCells + 1
        ELSE NoEntity]

PassInit ==
    /\ cells \in { [e \in Entities |->
                       IF e <= InputCells THEN PlacedInRow(row[e], e) ELSE DeadCell] :
                   row \in [1..InputCells -> CellInputs] }
    /\ \E stale_row, stale_front \in BOOLEAN :
          grid = InputIndex(cells, stale_row, stale_front)
    /\ queue \in InputQueues
    /\ added = {}
    /\ removed = {}
    /\ despawning = {}
    /\ player = <<0, 0>>
    /\ since_create = 0
    /\ since_destroy = 0
    /\ recovered = {}
    /\ frame = 0
    /\ pc = "propagate"

PassNext == propagate_regular_constraints

PassSpec == PassInit /\ [][PassNext]_vars

NoDuplicates(s) == \A i, j \in 1..Len(s) : s[i] = s[j] => i = j

\* A processed collapsed cell pushes at most twice per direction: once
\* when the neighbour was narrowed, once more when it was reset.
PushesPerCell == 2 * Len(DIRECTION_VECTORS)

\* C24: every propagation pass terminates with the queue empty whatever the
\* queue held at its start (duplicates, handles of destroyed cells, cells
\* that enqueue each other), and no handle is processed twice in one pass:
\* the pass pops at most the initial entries plus what the once-processed
\* cells pushed.
C24_PassTerminatesEachCellOnce ==
    [][pc = "propagate" =>
          /\ queue' = << >>
          /\ PropagationPass.queue = << >>
          /\ NoDuplicates(PropagationPass.handled)
          /\ PropagationPass.pops
               <= Len(queue) + PushesPerCell * Len(PropagationPass.handled)]_vars

\* A queue with a duplicate and a destroyed cell's handle, whose collapsed
\* cell narrows and re-enqueues its neighbour: the pass drains it.
C24_Witness ==
    /\ pc = "propagate"
    /\ queue = <<1, 3, 1>>
    /\ cells[1].live /\ cells[1].is_collapsed
    /\ cells[2].live /\ ~cells[2].is_collapsed
    /\ ~cells[3].live
    /\ PropagationPass.queue = << >>
    /\ PropagationPass.handled = <<1, 3, 2>>
    /\ PropagationPass.pops > Len(queue)

\* --------------------------------------------- C25: initialization step

Count(s, e) == Cardinality({i \in 1..Len(s) : s[i] = e})

\* What initialization pushed: the entries of queue' behind those of queue.
Pushed == SubSeq(queue', Len(queue) + 1, Len(queue'))

\* Some neighbour coordinate of e holds a collapsed cell in the index.
IndexHoldsCollapsedBeside(e) ==
    \E i \in 1..Len(DIRECTION_VECTORS) :
        \E p \in {Offset(cells[e].position, DIRECTION_VECTORS[i][2])} :
            /\ p \in GridKeys
            /\ grid[p] # NoEntity
            /\ cells[grid[p]].live
            /\ cells[grid[p]].is_collapsed

\* C25: initialization enqueues a newly created cell exactly once when one
\* of its neighbour coordinates holds a collapsed cell in the spatial index
\* and not at all otherwise, enqueues no cell that is not newly created,
\* keeps what the queue held, and modifies no cell.
C25_InitializationEnqueuesNewCellsOnce ==
    [][pc = "init" =>
          /\ cells' = cells
          /\ Len(queue') >= Len(queue)
          /\ SubSeq(queue', 1, Len(queue)) = queue
          /\ \A e \in Entities :
                Count(Pushed, e) =
                    IF e \in added /\ cells[e].live /\ IndexHoldsCollapsedBeside(e)
                    THEN 1 ELSE 0]_vars

\* After initialization: a fresh cell beside a collapsed one sits in the
\* queue once while another cell of the same frame, with no collapsed
\* neighbour in the index, was left out.
C25_Witness ==
    /\ pc = "propagate"
    /\ \E e, f \in Live :
          /\ ~cells[e].is_collapsed /\ ~cells[f].is_collapsed
          /\ HasCollapsedNeighbor(e) /\ Count(queue, e) = 1
          /\ HasIndexedNeighbor(f) /\ ~HasCollapsedNeighbor(f) /\ Count(queue, f) = 0

\* ------------------------------------- C26: propagation before collapse

\* C26: propagation has priority over collapse. A collapse step invoked
\* while the propagation queue is non-empty returns without collapsing or
\* modifying any cell and without changing the queue.
C26_CollapseWaitsForEmptyQueue ==
    [][(pc = "collapse" /\ queue # << >>)
          => (cells' = cells /\ queue' = queue)]_vars

\* The step has returned with a handle still queued and a cell it could
\* otherwise have collapsed left uncollapsed.
C26_Witness ==
    /\ pc = "frame"
    /\ queue = <<1>>
    /\ cells[1].live
    /\ ~cells[1].is_collapsed
    /\ cells[1].valid_tiles # << >>

\* --------------------------------------------- C27: lowest entropy first

\* The cells a collapse step has just collapsed.
Chosen == {e \in Entities : ~cells[e].is_collapsed /\ cells'[e].is_collapsed}

Uncollapsed == {e \in Live : ~cells[e].is_collapsed}

AtMinimumEntropy(e) == \A f \in Uncollapsed : cells[e].entropy <= cells[f].entropy

\* C27: the cell chosen by a collapse call is uncollapsed and its entropy
\* field is the minimum entropy field over the uncollapsed live cells, so no
\* cell with a larger entropy field is ever chosen; and every uncollapsed
\* cell at that minimum can be the one chosen.
C27_CollapseChoosesAtMinimumEntropy ==
    /\ [][pc = "collapse" =>
             \A e \in Chosen : e \in Uncollapsed /\ AtMinimumEntropy(e)]_vars
    /\ [](pc = "collapse" /\ queue = << >> =>
             \A e \in Uncollapsed :
                 (AtMinimumEntropy(e) /\ cells[e].valid_tiles # << >>)
                 => ENABLED (collapse_lowest_entropy_cell /\ cells'[e].is_collapsed))

\* A collapse has chosen cell 2 and left cell 1, of larger entropy field,
\* uncollapsed.
C27_Witness ==
    /\ pc = "frame"
    /\ queue = <<2>>
    /\ cells[2].live /\ cells[2].is_collapsed
    /\ cells[1].live /\ ~cells[1].is_collapsed
    /\ cells[1].entropy = Len(OpenSpaceRules.all_tiles)

\* ----------------------------------- C28: contradictions do not persist

\* C28: with a non-empty all_tiles a contradiction never outlives the step
\* that produced it. At the end of every propagation pass, which is where
\* every collapse call starts, no live uncollapsed cell has an empty
\* valid_tiles, and so a collapse call that finds a candidate never takes
\* its empty-candidates branch: it collapses a cell.
C28_NoContradictionPersists ==
    /\ [](OpenSpaceRules.all_tiles # << >>)
    /\ [](pc = "collapse" => \A e \in Live : ~is_contradiction(cells[e]))
    /\ [][(pc = "collapse" /\ queue = << >> /\ Uncollapsed # {})
             => Chosen # {}]_vars

\* The end of a pass in which a cell ran out of candidates and was reset.
C28_Witness ==
    /\ pc = "collapse"
    /\ \E e \in recovered :
          /\ cells[e].live
          /\ ~cells[e].is_collapsed
          /\ cells[e].valid_tiles = <<"Ground">>

\* ------------------------------------------ C29: recovery is permanent

OnlyGround(c) == c.valid_tiles = <<"Ground">>

\* C29: once contradiction recovery has fired for a cell, its valid_tiles is
\* exactly [Ground] after every later propagation step, whatever its
\* collapsed neighbours allow, and Ground is the only tile it is ever
\* resolved to. A cell reset during a pass ends that pass with [Ground]; a
\* live cell holding [Ground] holds it after every step; and a cell
\* collapsed from [Ground] carries the tile Ground.
C29_RecoveredCellStaysGround ==
    /\ [][\A e \in Entities :
             /\ (pc = "propagate" /\ e \in recovered' /\ cells'[e].live)
                   => OnlyGround(cells'[e])
             /\ (cells[e].live /\ cells'[e].live /\ OnlyGround(cells[e]))
                   => OnlyGround(cells'[e])
             /\ (e \in Chosen /\ OnlyGround(cells[e]))
                   => cells'[e].tile_type = "Ground"]_vars
    /\ [](\A e \in Live :
             (cells[e].is_collapsed /\ OnlyGround(cells[e]))
             => cells[e].tile_type = "Ground")

\* A cell reset in the last pass has just been resolved, to Ground, beside a
\* collapsed neighbour whose tile is not Ground.
C29_Witness ==
    /\ pc = "frame"
    /\ \E e \in recovered :
          /\ cells[e].live
          /\ queue = <<e>>
          /\ cells[e].is_collapsed
          /\ cells[e].tile_type = "Ground"
          /\ \E i \in 1..Len(DIRECTION_VECTORS) :
                \E n \in CellsAt(Offset(cells[e].position, DIRECTION_VECTORS[i][2])) :
                    cells[n].is_collapsed /\ cells[n].tile_type # "Ground"

\* --------------------------------- C30: a standing observer off the grid

\* World positions within one cell of the origin, grid-aligned or not.
ObserverPositions ==
    {<< x, z >> : x \in 0..(cell_edge_length - 1), z \in 0..(cell_edge_length - 1)}

OffGridInit ==
    /\ cells = [e \in Entities |-> DeadCell]
    /\ grid = [p \in GridKeys |-> NoEntity]
    /\ queue = << >>
    /\ added = {}
    /\ removed = {}
    /\ despawning = {}
    /\ player \in ObserverPositions
    /\ since_create = 0
    /\ since_destroy = 0
    /\ recovered = {}
    /\ frame = 0
    /\ pc = "create"

\* End of the schedule for an observer that stands still.
standing_frame ==
    /\ pc = "frame"
    /\ pc' = "create"
    /\ frame < MaxFrames
    /\ frame' = frame + 1
    /\ cells' = [e \in Entities |-> IF e \in despawning THEN DeadCell ELSE cells[e]]
    /\ removed' = removed \cup despawning
    /\ despawning' = {}
    /\ \E delta \in FrameDeltas :
          /\ since_create' = Min(since_create + delta, UPDATE_INTERVAL_MS)
          /\ since_destroy' = Min(since_destroy + delta, DESPAWN_INTERVAL_MS)
    /\ UNCHANGED <<player, grid, queue, added, recovered>>

OffGridNext ==
    \/ create_cells
    \/ destroy_cells
    \/ update_spatial_index
    \/ initialize_new_cells
    \/ propagate_regular_constraints
    \/ collapse_first_or_last
    \/ standing_frame

OffGridSpec == OffGridInit /\ [][OffGridNext]_vars

\* C30: no create/destroy thrash for a standing observer. Wherever the
\* observer stands, on the grid or off it, every cell a creation pass has
\* created lies within the despawn distance, so no destruction pass at that
\* position ever queues a cell for despawn.
C30_NoThrashForStandingObserver ==
    /\ \A e \in Live : ~TooFar(e)
    /\ despawning = {}

\* ------------------------------- C31: the index keeps live cells' entries

\* The index after update_spatial_index has run on the current state.
IndexAfterUpdate == IndexRetained(IndexInserted)

\* C31: update_spatial_index never removes the entry of a live cell. The
\* entry of every live cell is kept, every entry that disappears stored the
\* handle of a destroyed cell, and a coordinate at which a cell was destroyed
\* and a new one created in the same tick maps to the new live cell.
C31_IndexKeepsLiveEntries ==
    [][pc = "index" =>
          /\ \A p \in GridKeys :
                /\ (grid[p] # NoEntity /\ cells[grid[p]].live) => grid'[p] = grid[p]
                /\ (grid[p] # NoEntity /\ grid'[p] = NoEntity) => grid[p] \in removed
          /\ \A e \in added :
                (cells[e].live /\ cells[e].position \in GridKeys)
                => grid'[cells[e].position] = e]_vars

\* A cell was destroyed and its entry is still in the index; a new cell has
\* been created at the same coordinate in this tick, and the update maps
\* the coordinate to the new cell.
C31_Witness ==
    /\ pc = "index"
    /\ \E e \in added :
          /\ cells[e].live
          /\ grid[cells[e].position] \in removed
          /\ IndexAfterUpdate[cells[e].position] = e

\* ------------------------------------- C32: handles of destroyed cells

\* The index without the entries that store a destroyed cell's handle.
IndexOfLiveCells ==
    [p \in GridKeys |->
        IF grid[p] # NoEntity /\ cells[grid[p]].live THEN grid[p] ELSE NoEntity]

IsLiveHandle(e) == cells[e].live

\* The pass run with every destroyed cell's handle taken out of the queue
\* and out of the index beforehand.
PassWithoutDeadHandles ==
    PropagateLoop([cells |-> cells, queue |-> SelectSeq(queue, IsLiveHandle),
                   processed |-> {}, recovered |-> {}, handled |-> << >>,
                   pops |-> 0],
                  IndexOfLiveCells, OpenSpaceRules)

\* C32: a handle of a destroyed cell, dequeued or found in the index as a
\* neighbour, is skipped like a missing neighbour. The pass ends as it would
\* have without those handles: the same cells, the same live cells
\* processed in the same order, the same resets, nothing left in the queue.
C32_DeadHandlesAreSkipped ==
    [][pc = "propagate" =>
          /\ cells' = PassWithoutDeadHandles.cells
          /\ queue' = PassWithoutDeadHandles.queue
          /\ recovered' = PassWithoutDeadHandles.recovered
          /\ SelectSeq(PropagationPass.handled, IsLiveHandle)
                = PassWithoutDeadHandles.handled
          /\ \A e \in Entities : ~cells[e].live => cells'[e] = cells[e]]_vars

\* A destroyed cell's handle is first in the queue and stored in front of
\* the collapsed first cell; the pass still narrows the cell to its right.
C32_Witness ==
    /\ pc = "propagate"
    /\ queue = <<3, 1>>
    /\ grid[<<0, 1>>] = 3
    /\ ~cells[3].live
    /\ cells[1].live /\ cells[1].is_collapsed
    /\ cells[2].live /\ ~cells[2].is_collapsed
    /\ PropagationPass.cells[2].valid_tiles # cells[2].valid_tiles
    /\ PropagationPass.cells[3] = cells[3]

\* ------------------------------------------- C33: missing neighbours

\* What the index yields for direction i of cell e: a live cell's handle,
\* or NoEntity when the coordinate has no entry.
PresentNeighbor(e, i) ==
    NeighborAt(grid, cells, Offset(cells[e].position, DIRECTION_VECTORS[i][2]))

\* Tile t is ruled out for e by a collapsed neighbour the index holds.
RuledOutByPresentNeighbor(e, t) ==
    \E i \in 1..Len(DIRECTION_VECTORS) :
        \E n \in {PresentNeighbor(e, i)} :
            /\ IsCollapsedCell(cells, n)
            /\ cells[n].tile_type # NoTile
            /\ \/ ~Contains(AllowedOn(cells[n].tile_type, DIRECTION_VECTORS[i][1]), t)
               \/ ~Contains(AllowedOn(cells[n].tile_type,
                                      get_opposite_direction(DIRECTION_VECTORS[i][1])), t)

HandledInPass == TileSet(PropagationPass.handled)

\* Tile t is ruled out for e by a processed collapsed cell whose own lookup
\* in the index finds e.
RuledOutByProcessedCell(e, t) ==
    \E c \in HandledInPass : \E i \in 1..Len(DIRECTION_VECTORS) :
        /\ cells[c].live /\ cells[c].is_collapsed /\ cells[c].tile_type # NoTile
        /\ PresentNeighbor(c, i) = e
        /\ \/ ~Contains(AllowedOn(cells[c].tile_type, DIRECTION_VECTORS[i][1]), t)
           \/ ~Contains(AllowedOn(cells[c].tile_type,
                                  get_opposite_direction(DIRECTION_VECTORS[i][1])), t)

\* C33: a direction whose target coordinate has no entry in the spatial
\* index is no constraint. In a pass no cell comes into being, every tile an
\* uncollapsed cell loses is ruled out through a lookup that found an entry
\* (its own, or that of a processed collapsed cell beside it; or the cell
\* was reset), only queued handles and indexed
\* neighbours are processed, and a processed collapsed cell still
\* constrains every uncollapsed neighbour the index holds in its other
\* directions. In initialization a new cell is enqueued exactly when some
\* direction does hold a collapsed cell, whatever directions are missing.
C33_MissingNeighbourIsNoConstraint ==
    [][/\ pc = "propagate" =>
            /\ \A e \in Entities : cells'[e].live = cells[e].live
            /\ \A e \in Live :
                  ~cells[e].is_collapsed =>
                      \/ e \in recovered'
                      \/ \A t \in TileSet(cells[e].valid_tiles)
                                    \ TileSet(cells'[e].valid_tiles) :
                             \/ RuledOutByPresentNeighbor(e, t)
                             \/ RuledOutByProcessedCell(e, t)
            /\ \A h \in HandledInPass :
                  \/ InQueue(h)
                  \/ \E c \in Live : \E i \in 1..Len(DIRECTION_VECTORS) :
                         PresentNeighbor(c, i) = h
            /\ \A c \in HandledInPass : \A i \in 1..Len(DIRECTION_VECTORS) :
                  \A n \in {PresentNeighbor(c, i)} :
                      (cells[c].live /\ cells[c].is_collapsed
                         /\ cells[c].tile_type # NoTile
                         /\ n # NoEntity /\ ~cells[n].is_collapsed)
                      => ConstraintApplied(c, n, i)
       /\ pc = "init" =>
            /\ cells' = cells
            /\ \A e \in added :
                  cells[e].live =>
                      (Count(Pushed, e) > 0
                         <=> \E i \in 1..Len(DIRECTION_VECTORS) :
                                IsCollapsedCell(cells, PresentNeighbor(e, i)))]_vars

\* The end of a pass in which a collapsed cell with no index entry in front
\* of it has narrowed an uncollapsed neighbour in a later direction.
C33_Witness ==
    /\ pc = "collapse"
    /\ \E c \in Live : \E i \in 2..Len(DIRECTION_VECTORS) :
          \E n \in {PresentNeighbor(c, i)} :
              /\ cells[c].is_collapsed
              /\ PresentNeighbor(c, 1) = NoEntity
              /\ n # NoEntity
              /\ ~cells[n].is_collapsed
              /\ Len(cells[n].valid_tiles) < Len(OpenSpaceRules.all_tiles)

\* ------------------------------------ C34: frame of a propagation step

\* The state a pass starts its loop in.
PassStart ==
    [cells |-> cells, queue |-> queue, processed |-> {}, recovered |-> {},
     handled |-> << >>, pops |-> 0]

Adjacent(p, q) ==
    \E i \in 1..Len(DIRECTION_VECTORS) : q = Offset(p, DIRECTION_VECTORS[i][2])

\* What one iteration, from st to nx with handle h dequeued, may have
\* changed of cell e.
WithinStepFrame(st, nx, h, e) ==
    \/ nx.cells[e] = st.cells[e]
    \/ /\ h \notin st.processed
       /\ st.cells[h].live
       /\ st.cells[e].live /\ nx.cells[e].live
       /\ ~st.cells[e].is_collapsed /\ ~nx.cells[e].is_collapsed
       /\ nx.cells[e].tile_type = st.cells[e].tile_type
       /\ nx.cells[e].position = st.cells[e].position
       /\ nx.cells[e].translation = st.cells[e].translation
       /\ IF st.cells[h].is_collapsed
          THEN Adjacent(st.cells[h].position, st.cells[e].position)
          ELSE e = h

\* Every iteration of the loop from st on stays within its frame.
RECURSIVE EveryStepWithinFrame(_, _, _)
EveryStepWithinFrame(st, g, r) ==
    IF st.queue = << >> THEN TRUE
    ELSE /\ \A e \in Entities :
               WithinStepFrame(st, PropagateStep(st, g, r), Head(st.queue), e)
         /\ EveryStepWithinFrame(PropagateStep(st, g, r), g, r)

\* C34: frame of a propagation step. Processing a dequeued collapsed cell
\* modifies only uncollapsed cells at directly adjacent coordinates, and
\* processing a dequeued uncollapsed cell modifies only that cell; no step
\* changes a position, a collapsed cell or a non-adjacent cell, and the
\* pass leaves the spatial index as it was.
C34_PropagationStepFrame ==
    /\ [](pc = "propagate" => EveryStepWithinFrame(PassStart, grid, OpenSpaceRules))
    /\ [][pc = "propagate" => grid' = grid]_vars

\* A pass whose first step processes a collapsed cell and narrows a cell
\* beside it while an uncollapsed cell further away is in the world.
C34_Witness ==
    /\ pc = "propagate"
    /\ queue # << >>
    /\ cells[Head(queue)].live /\ cells[Head(queue)].is_collapsed
    /\ PropagateStep(PassStart, grid, OpenSpaceRules).cells # cells
    /\ \E e \in Live :
          /\ ~cells[e].is_collapsed
          /\ e # Head(queue)
          /\ ~Adjacent(cells[Head(queue)].position, cells[e].position)

\* --------------------------------------- C35: candidates only shrink

\* Cell e over one iteration from st to nx: its candidates shrank, or the
\* iteration reset it to [Ground].
ShrankOrReset(st, nx, e) ==
    \/ TileSet(nx.cells[e].valid_tiles) \subseteq TileSet(st.cells[e].valid_tiles)
    \/ /\ nx.cells[e].valid_tiles = <<"Ground">>
       /\ e \in nx.recovered

RECURSIVE EveryStepShrinks(_, _, _)
EveryStepShrinks(st, g, r) ==
    IF st.queue = << >> THEN TRUE
    ELSE /\ \A e \in Entities :
               (st.cells[e].live /\ ~st.cells[e].is_collapsed)
               => ShrankOrReset(st, PropagateStep(st, g, r), e)
         /\ EveryStepShrinks(PropagateStep(st, g, r), g, r)

\* C35: candidates only shrink. While a cell is uncollapsed every
\* propagation step leaves its valid_tiles a subset of what it was, except
\* that a step which empties it resets it to exactly [Ground]; and no tile
\* outside all_tiles plus Ground ever appears in a cell.
C35_CandidatesOnlyShrink ==
    /\ pc = "propagate" => EveryStepShrinks(PassStart, grid, OpenSpaceRules)
    /\ \A e \in Live :
          TileSet(cells[e].valid_tiles)
             \subseteq TileSet(OpenSpaceRules.all_tiles) \cup {"Ground"}

\* The end of a pass that reset one cell and narrowed another.
C35_Witness ==
    /\ pc = "collapse"
    /\ \E e \in recovered :
          cells[e].live /\ ~cells[e].is_collapsed /\ cells[e].valid_tiles = <<"Ground">>
    /\ \E f \in Live \ recovered :
          /\ ~cells[f].is_collapsed
          /\ Len(cells[f].valid_tiles) < Len(OpenSpaceRules.all_tiles)

\* ------------------------------------ C36: queue order and duplication

\* The queues that hold the same set of handles as q.
SameHandles(q) == {q2 \in InputQueues : TileSet(q2) = TileSet(q)}

\* C36: the outcome of a pass does not depend on queue order or
\* duplication. For the same cells, index and set of queued handles every
\* ordering and duplication of the queue entries yields the same valid_tiles
\* and the same entropy for every cell once the queue has drained.
C36_PassIndependentOfQueueOrder ==
    pc = "propagate" =>
        \A out \in {PropagationPass.cells} : \A q2 \in SameHandles(queue) :
            \A other \in {CellsAfterPassOn(q2)} : \A e \in Entities :
                /\ other[e].valid_tiles = out[e].valid_tiles
                /\ other[e].entropy = out[e].entropy

\* ----------------------------------------- C37: a cell as created

\* The grid coordinates of the square around the observer.
InSquare(position) ==
    /\ position[1] \in (RoundDiv(player[1], cell_edge_length) - half_size)
                         ..(RoundDiv(player[1], cell_edge_length) + half_size)
    /\ position[2] \in (RoundDiv(player[2], cell_edge_length) - half_size)
                         ..(RoundDiv(player[2], cell_edge_length) + half_size)

\* C37: every cell a creation pass produces starts uncollapsed, with no
\* tile, with valid_tiles equal to the rule set's all_tiles and entropy
\* equal to their number, with position equal to the grid coordinate it was
\* created for (a coordinate of the square around the observer's grid
\* cell, not a world coordinate) and with world translation equal to
\* position times the edge length.
C37_CellAsCreated ==
    [][pc = "create" =>
          \A e \in added' \ added :
              /\ ~cells[e].live /\ cells'[e].live
              /\ ~cells'[e].is_collapsed
              /\ cells'[e].tile_type = NoTile
              /\ cells'[e].valid_tiles = OpenSpaceRules.all_tiles
              /\ cells'[e].entropy = Len(OpenSpaceRules.all_tiles)
              /\ InSquare(cells'[e].position)
              /\ cells'[e].translation
                    = << cells'[e].position[1] * cell_edge_length,
                         cells'[e].position[2] * cell_edge_length >>]_vars

\* A creation pass has just produced cells for an observer away from the
\* origin, where grid and world coordinates differ.
C37_Witness ==
    /\ pc = "destroy"
    /\ player # <<0, 0>>
    /\ \E e \in added :
          /\ cells[e].live
          /\ cells[e].position # cells[e].translation
          /\ cells[e].valid_tiles = OpenSpaceRules.all_tiles

\* ------------------------------------------ C38: opposite directions

\* Every direction get_opposite_direction has a match arm for.
MatchedDirections ==
    Direction \cup {"FrontRight", "FrontLeft", "BackRight", "BackLeft"}

\* The delta DIRECTION_VECTORS lists for a direction.
DeltaOf(direction) ==
    DIRECTION_VECTORS[CHOOSE i \in 1..Len(DIRECTION_VECTORS) :
                          DIRECTION_VECTORS[i][1] = direction][2]

Negated(d) == << 0 - d[1], 0 - d[2] >>

\* C38: get_opposite_direction is an involution that matches the
\* coordinate deltas. For every direction D, opposite(opposite(D)) = D and
\* opposite(D) # D; for every D of DIRECTION_VECTORS the delta of
\* opposite(D) is the negation of the delta of D, so that stepping from a
\* cell in direction D and then in opposite(D) leads back to the cell.
C38_OppositeDirectionIsInvolution ==
    /\ \A d \in MatchedDirections :
          /\ get_opposite_direction(d) \in MatchedDirections
          /\ get_opposite_direction(get_opposite_direction(d)) = d
          /\ get_opposite_direction(d) # d
    /\ \A i \in 1..Len(DIRECTION_VECTORS) :
          /\ DIRECTION_VECTORS[i][1] \in Direction
          /\ get_opposite_direction(DIRECTION_VECTORS[i][1]) \in Direction
          /\ DeltaOf(get_opposite_direction(DIRECTION_VECTORS[i][1]))
                = Negated(DIRECTION_VECTORS[i][2])
          /\ \A c \in Live :
                Offset(Offset(cells[c].position, DIRECTION_VECTORS[i][2]),
                       DeltaOf(get_opposite_direction(DIRECTION_VECTORS[i][1])))
                   = cells[c].position

\* In every direction some live cell has a live neighbour whose neighbour
\* in the opposite direction is the cell itself.
C38_Witness ==
    \A i \in 1..Len(DIRECTION_VECTORS) :
        \E c \in Live :
            \E n \in CellsAt(Offset(cells[c].position, DIRECTION_VECTORS[i][2])) :
                c \in CellsAt(Offset(cells[n].position,
                                     DeltaOf(get_opposite_direction(
                                                 DIRECTION_VECTORS[i][1]))))

====
